---- MODULE Spec2Model ----
(***************************************************************************)
(* Session / streaming orchestrator of ollama_native (src/src/main.rs).    *)
(*                                                                         *)
(* AppState (current_session_id, chat_history, attachments, db) is guarded *)
(* by one Mutex.  The UI callbacks run on the event-loop thread and hold   *)
(* the lock from their first statement to their return, so each is one     *)
(* atomic action that is enabled when the lock is free.  Every send spawns *)
(* a tokio task that opens the stream, receives fragments without the      *)
(* lock, then takes the lock to record the reply.                          *)
(*                                                                         *)
(* Closures handed to upgrade_in_event_loop run on the event loop in the   *)
(* order they were queued, and nothing else reads or writes the window's   *)
(* models, so the window's state is a function of that order alone.  Each  *)
(* closure is therefore applied in the step that queues it (the event loop *)
(* draining at once); a later run of the same closures yields the same     *)
(* sequence of window states.                                              *)
(*                                                                         *)
(* Texts are sequences of symbols; a string literal of the source is one   *)
(* symbol, push_str is concatenation.  Session ids are the naturals 1, 2,  *)
(* ... in the order Uuid::new_v4 produced them.  SQLite writes are taken   *)
(* to succeed except where the schema forbids them (the primary key of     *)
(* sessions).                                                              *)
(***************************************************************************)
EXTENDS Naturals, Sequences, FiniteSets, TLC

\* ---------------------------------------------------------------- bounds
MaxSends == 2
MaxFrags == 2
MaxClears == 1
MaxAttachments == 1

\* ---------------------------------------------------------------- inputs
RawInputs == {<<"hi">>}
Chunks == {<<"x">>}
Files == {<<(<<"n1">>), (<<"c1">>)>>, <<(<<"n2">>), (<<"c2">>)>>}

TaskIds == 1..MaxSends
NoTask == 0

VARIABLES
  current_session_id,  \* AppState.current_session_id
  chat_history,        \* AppState.chat_history: sequence of [role, content]
  attachments,         \* AppState.attachments: sequence of <<name, content>>
  db_sessions,         \* table sessions, in rowid order: [id, title, created_at]
  db_messages,         \* table messages, in rowid order: [session_id, role, content]
  lock,                \* holder of the Mutex: NoTask (free) or a task id
  tasks,               \* the spawned streaming tasks
  chat_messages,       \* the window's chat_messages row model
  history_list,        \* the window's history_list
  attachment_list,     \* the window's attachment_list
  now,                 \* the database's datetime('now'), in seconds
  crashed,             \* the event-loop thread panicked: the process is gone
  n_sessions,          \* how many session ids Uuid::new_v4 has produced
  n_sends,             \* how many sends were dispatched
  switch_run,          \* history: the switchTo calls made in a row with no send, clear or
                       \* reconciliation since: [id, calls], calls counted up to 2
  att_origin,          \* history: the session that was current when attachments[i] was staged
  msg_origin           \* history: per messages row, the send that wrote it and the origins of the attachments folded in it

vars == <<current_session_id, chat_history, attachments, db_sessions, db_messages,
          lock, tasks, chat_messages, history_list, attachment_list, now,
          crashed, n_sessions, n_sends, switch_run, att_origin, msg_origin>>

ui_vars == <<chat_messages, history_list, attachment_list, crashed>>
count_vars == <<n_sessions, n_sends>>

\* ------------------------------------------------------------- messages
User(content) == [role |-> "user", content |-> content]
Assistant(content) == [role |-> "assistant", content |-> content]

Last(s) == s[Len(s)]

RECURSIVE Flatten(_)
Flatten(ss) == IF ss = <<>> THEN <<>> ELSE Head(ss) \o Flatten(Tail(ss))

\* format!("[{}]\n{}\n", name, content)
FormatAttachment(a) == <<"[">> \o a[1] \o <<"]\n">> \o a[2] \o <<"\n">>

HeaderLine == "Context from files:\n"

\* the composed message of a send: header block, then the raw input
FullMessage(atts, raw_input) ==
  (IF atts # <<>>
     THEN <<HeaderLine>> \o Flatten([i \in 1..Len(atts) |-> FormatAttachment(atts[i])])
     ELSE <<>>) \o raw_input

\* ---------------------------------------------------------- persistence
SessionIdsOf(rows) == {rows[i].id : i \in 1..Len(rows)}

\* INSERT INTO sessions: refused by the primary key when the id is present
InsertSession(rows, id, title, created_at) ==
  IF id \in SessionIdsOf(rows)
    THEN rows
    ELSE Append(rows, [id |-> id, title |-> title, created_at |-> created_at])

\* an insert that writes over the newest row
InsertMessageOverLast(rows, session_id, role, content) ==
  IF rows = <<>>
    THEN <<[session_id |-> session_id, role |-> role, content |-> content]>>
    ELSE [rows EXCEPT ![Len(rows)] =
            [session_id |-> session_id, role |-> role, content |-> content]]

\* INSERT INTO messages (session_id, role, content)
InsertMessage(rows, session_id, role, content) ==
  Append(rows, [session_id |-> session_id, role |-> role, content |-> content])

\* SELECT role, content FROM messages WHERE session_id = ?1, rows to ChatMessages
LoadMessages(rows, id) ==
  LET IsOf(r) == r.session_id = id
      sel == SelectSeq(rows, IsOf)
  IN [i \in 1..Len(sel) |->
        IF sel[i].role = "user" THEN User(sel[i].content) ELSE Assistant(sel[i].content)]

\* ------------------------------------------------------------ UI closures
UiRow(m) == [role |-> IF m.role = "user" THEN "User" ELSE "AI", content |-> m.content]

\* update_ui_model: the rows that replace chat_messages
UiRows(history) == [i \in 1..Len(history) |-> UiRow(history[i])]

AttachmentNames(atts) == [i \in 1..Len(atts) |-> atts[i][1]]

\* a listing ordered by each session's latest Message, most recent first
HistoryListingsByLastMessage(rows) ==
  LET n == Len(rows)
      LastRowOf(id) ==
        LET of == {i \in 1..Len(db_messages) : db_messages[i].session_id = id}
        IN IF of = {} THEN 0 ELSE CHOOSE i \in of : \A j \in of : j <= i
      perms == {p \in [1..n -> 1..n] : \A i, j \in 1..n : i # j => p[i] # p[j]}
      sorted == {p \in perms :
                  \A i \in 1..n : i < n => LastRowOf(rows[p[i]].id) >= LastRowOf(rows[p[i + 1]].id)}
  IN {[i \in 1..n |-> [id |-> rows[p[i]].id, title |-> rows[p[i]].title]] : p \in sorted}

\* SELECT id, title FROM sessions ORDER BY created_at DESC: every order of the
\* rows in which created_at does not increase (rows of one second tie, and SQL
\* leaves the order of ties open)
HistoryListings(rows) ==
  LET n == Len(rows)
      perms == {p \in [1..n -> 1..n] : \A i, j \in 1..n : i # j => p[i] # p[j]}
      sorted == {p \in perms :
                  \A i \in 1..n : i < n => rows[p[i]].created_at >= rows[p[i + 1]].created_at}
  IN {[i \in 1..n |-> [id |-> rows[p[i]].id, title |-> rows[p[i]].title]] : p \in sorted}

AiRow(text) == [role |-> "AI", content |-> text]

\* vec_model.push(ChatMessageData { role: "AI", content: "" })
PushAiRow(rows) == Append(rows, AiRow(<<>>))

\* row_idx = row_count() - 1; set_row_data(row_idx, ...): with no rows the
\* subtraction overflows in usize, and set_row_data ignores the wrapped index
SetLastRow(rows, text) ==
  IF Len(rows) = 0 THEN rows ELSE [rows EXCEPT ![Len(rows)] = AiRow(text)]

\* what that overflow does to the event-loop thread: a build with overflow
\* checks panics (TRUE), a build without them goes on (FALSE)
SetLastRowPanics(rows) == IF Len(rows) = 0 THEN BOOLEAN ELSE {FALSE}

\* ------------------------------------------------------------------ tasks
IdleTask ==
  [pc |-> "idle", session_id |-> 0, history_for_ai |-> <<>>, full_response |-> <<>>,
   \* history, not program state:
   raw_input |-> <<>>, folded |-> <<>>, dispatched_in |-> 0, frags |-> 0,
   outcome |-> "none", received |-> <<>>, pushed |-> <<>>]

\* no switchTo has run since the last send, clear or reconciliation
NoRun == [id |-> 0, calls |-> 0]

Running == ~crashed

Init ==
  /\ current_session_id = 1
  /\ chat_history = <<>>
  /\ attachments = <<>>
  /\ db_sessions = <<>>
  /\ db_messages = <<>>
  /\ lock = NoTask
  /\ tasks = [t \in TaskIds |-> IdleTask]
  /\ chat_messages = <<>>
  /\ history_list = <<>>
  /\ attachment_list = <<>>
  /\ now = 0
  /\ crashed = FALSE
  /\ n_sessions = 1
  /\ n_sends = 0
  /\ switch_run = NoRun
  /\ att_origin = <<>>
  /\ msg_origin = <<>>

\* ------------------------------------------------------------- handlers
\* ui.on_pick_attachment: the picked file is read, then staged under the lock
on_pick_attachment(file) ==
  /\ Running /\ lock = NoTask
  /\ Len(attachments) < MaxAttachments
  /\ attachments' = Append(attachments, file)
  /\ attachment_list' = AttachmentNames(attachments')
  /\ att_origin' = Append(att_origin, current_session_id)
  /\ UNCHANGED <<current_session_id, chat_history, db_sessions, db_messages, lock, tasks,
                 chat_messages, history_list, crashed, now, n_sessions,
                 n_sends, switch_run, msg_origin>>

RemoveAt(s, i) == [k \in 1..(Len(s) - 1) |-> IF k < i THEN s[k] ELSE s[k + 1]]

\* ui.on_remove_attachment: index counts from 0; out of range is a no-op
on_remove_attachment(index) ==
  /\ Running /\ lock = NoTask
  /\ index >= 0 /\ index < Len(attachments)
  /\ attachments' = RemoveAt(attachments, index + 1)
  /\ attachment_list' = AttachmentNames(attachments')
  /\ att_origin' = RemoveAt(att_origin, index + 1)
  /\ UNCHANGED <<current_session_id, chat_history, db_sessions, db_messages, lock, tasks,
                 chat_messages, history_list, crashed, now, count_vars,
                 switch_run, msg_origin>>

\* a session switch that keeps the pending attachments
AttachmentsKeptAfterLoad(atts) == atts

\* s.attachments.clear() of on_load_session
AttachmentsAfterLoad(atts) == <<>>

\* a switch that appends the loaded rows to the history it finds
HistoryAppendedAfterLoad(id) == chat_history \o LoadMessages(db_messages, id)

\* a switch that keeps the history it finds when the target has no rows
HistoryKeptWhenNoRows(id) ==
  IF LoadMessages(db_messages, id) = <<>> THEN chat_history ELSE LoadMessages(db_messages, id)

\* s.chat_history = history_to_load
HistoryAfterLoad(id) == LoadMessages(db_messages, id)

\* ui.on_load_session
on_load_session(id) ==
  /\ Running /\ lock = NoTask
  /\ chat_history' = HistoryAfterLoad(id)
  /\ current_session_id' = id
  /\ attachments' = AttachmentsAfterLoad(attachments)
  /\ att_origin' = [i \in 1..Len(attachments') |-> att_origin[i]]
  /\ attachment_list' = <<>>
  /\ chat_messages' = UiRows(chat_history')
  /\ switch_run' = [id |-> id, calls |-> IF switch_run.id = id THEN 2 ELSE 1]
  /\ UNCHANGED <<db_sessions, db_messages, lock, tasks, history_list, crashed, now,
                 n_sessions, n_sends, msg_origin>>

\* a clear that keeps the pending attachments
AttachmentsKeptAfterClear(atts) == atts

\* s.attachments.clear() of on_clear_chat
AttachmentsAfterClear(atts) == <<>>

\* ui.on_clear_chat
on_clear_chat ==
  /\ Running /\ lock = NoTask
  /\ n_sessions < MaxClears + 1
  /\ current_session_id' = n_sessions + 1
  /\ n_sessions' = n_sessions + 1
  /\ chat_history' = <<>>
  /\ attachments' = AttachmentsAfterClear(attachments)
  /\ att_origin' = [i \in 1..Len(attachments') |-> att_origin[i]]
  /\ chat_messages' = <<>>
  /\ attachment_list' = <<>>
  /\ history_list' \in HistoryListings(db_sessions)
  /\ switch_run' = NoRun
  /\ UNCHANGED <<db_sessions, db_messages, lock, tasks, crashed, now, n_sends,
                 msg_origin>>

\* let session_id = s.current_session_id.clone()
DispatchSessionId(current) == current

\* a dispatch that keeps the folded attachments pending
AttachmentsKeptAfterSend(atts) == atts

\* s.attachments.clear() of on_send_message
AttachmentsAfterSend(atts) == <<>>

\* if s.chat_history.is_empty() { INSERT INTO sessions ... }
SessionsAfterSend(rows, history, session_id, raw_input, created_at) ==
  IF history = <<>> THEN InsertSession(rows, session_id, raw_input, created_at) ELSE rows

\* a dispatch that persists the raw text while chat_history holds the fold
PersistedUserContentRaw(full_message, raw_input) == raw_input

\* params![session_id, full_message]: the content of the persisted user row
PersistedUserContent(full_message, raw_input) == full_message

\* a snapshot cloned before the user turn is pushed
HistorySnapshotBeforePush(history) == SubSeq(history, 1, Len(history) - 1)

\* let history_for_ai = s.chat_history.clone(), taken after the user turn is pushed
HistorySnapshot(history) == history

\* datetime('now') at the insert: the second of the newest row or a later one
\* (only the ties between rows matter, so the clock moves by at most one
\* second per inserted row, and the first row is stamped 1)
Clock(t, rows, history) ==
  IF history # <<>> THEN {t} ELSE IF rows = <<>> THEN {t + 1} ELSE {t, t + 1}

\* ui.on_send_message: the whole dispatch, under the lock
on_send_message(msg) ==
  /\ Running /\ lock = NoTask
  /\ n_sends < MaxSends
  /\ LET t == n_sends + 1
         session_id == DispatchSessionId(current_session_id)
         full_message == FullMessage(attachments, msg)
     IN /\ attachments' = AttachmentsAfterSend(attachments)
        /\ att_origin' = [i \in 1..Len(attachments') |-> att_origin[i]]
        /\ now' \in Clock(now, db_sessions, chat_history)
        /\ db_sessions' = SessionsAfterSend(db_sessions, chat_history, session_id, msg, now')
        /\ chat_history' = Append(chat_history, User(full_message))
        /\ db_messages' = InsertMessage(db_messages, session_id, "user",
                                        PersistedUserContent(full_message, msg))
        /\ msg_origin' = Append(msg_origin,
                                [send |-> t,
                                 origins |-> {att_origin[i] : i \in 1..Len(att_origin)}])
        /\ chat_messages' = UiRows(chat_history')
        /\ tasks' = [tasks EXCEPT ![t] =
                       [pc |-> "spawned", session_id |-> session_id,
                        history_for_ai |-> HistorySnapshot(chat_history'),
                        full_response |-> <<>>,
                        raw_input |-> msg, folded |-> attachments,
                        dispatched_in |-> current_session_id, frags |-> 0,
                        outcome |-> "none", received |-> <<>>, pushed |-> <<>>]]
        /\ n_sends' = n_sends + 1
        /\ switch_run' = NoRun
  /\ UNCHANGED <<current_session_id, lock, history_list, attachment_list, crashed,
                 n_sessions>>

\* -------------------------------------------------- the streaming task
\* a task that takes the state lock when its stream opens and keeps it while
\* the fragments arrive
send_chat_messages_stream_locking(t) ==
  /\ Running
  /\ tasks[t].pc = "spawned"
  /\ lock = NoTask
  /\ \E ok \in BOOLEAN :
       IF ok
         THEN /\ tasks' = [tasks EXCEPT ![t].pc = "streaming"]
              /\ chat_messages' = PushAiRow(chat_messages)
              /\ lock' = t
         ELSE /\ tasks' = [tasks EXCEPT ![t].pc = "done", ![t].outcome = "open_failed"]
              /\ UNCHANGED <<chat_messages, lock>>
  /\ UNCHANGED <<current_session_id, chat_history, attachments, db_sessions, db_messages,
                 history_list, attachment_list, crashed, now, count_vars,
                 switch_run, att_origin, msg_origin>>

\* o_client.send_chat_messages_stream(req).await: Ok(stream) or Err
send_chat_messages_stream(t) ==
  /\ Running
  /\ tasks[t].pc = "spawned"
  /\ \E ok \in BOOLEAN :
       IF ok
         THEN /\ tasks' = [tasks EXCEPT ![t].pc = "streaming"]
              /\ chat_messages' = PushAiRow(chat_messages)
         ELSE /\ tasks' = [tasks EXCEPT ![t].pc = "done", ![t].outcome = "open_failed"]
              /\ UNCHANGED chat_messages
  /\ UNCHANGED <<current_session_id, chat_history, attachments, db_sessions, db_messages,
                 lock, history_list, attachment_list, crashed, now, count_vars,
                 switch_run, att_origin, msg_origin>>

\* a buffer that takes each fragment at its front
PushStrInFront(text, chunk) == chunk \o text

\* full_response.push_str(&chunk)
PushStr(text, chunk) == text \o chunk

\* a loop body that also records the partial reply in chat_history
stream_fragment_recording(t, chunk) ==
  /\ Running
  /\ tasks[t].pc = "streaming"
  /\ tasks[t].frags < MaxFrags
  /\ LET full_response == PushStr(tasks[t].full_response, chunk)
     IN /\ tasks' = [tasks EXCEPT ![t].full_response = full_response,
                                   ![t].frags = @ + 1,
                                   ![t].received = Append(@, chunk),
                                   ![t].pushed = Append(@, full_response)]
        /\ chat_messages' = SetLastRow(chat_messages, full_response)
        /\ crashed' \in SetLastRowPanics(chat_messages)
        /\ chat_history' = Append(chat_history, Assistant(full_response))
  /\ UNCHANGED <<current_session_id, attachments, db_sessions, db_messages,
                 lock, history_list, attachment_list, now, count_vars,
                 switch_run, att_origin, msg_origin>>

\* stream.next().await = Some(Ok(res)): one pass of the while-let body
stream_fragment(t, chunk) ==
  /\ Running
  /\ tasks[t].pc = "streaming"
  /\ tasks[t].frags < MaxFrags
  /\ LET full_response == PushStr(tasks[t].full_response, chunk)
     IN /\ tasks' = [tasks EXCEPT ![t].full_response = full_response,
                                   ![t].frags = @ + 1,
                                   ![t].received = Append(@, chunk),
                                   ![t].pushed = Append(@, full_response)]
        /\ chat_messages' = SetLastRow(chat_messages, full_response)
        /\ crashed' \in SetLastRowPanics(chat_messages)
  /\ UNCHANGED <<current_session_id, chat_history, attachments, db_sessions, db_messages,
                 lock, history_list, attachment_list, now, count_vars,
                 switch_run, att_origin, msg_origin>>

\* where the task goes when stream.next().await is None ("complete") or
\* Some(Err(_)) ("error"): the while-let pattern fails for both
AfterLoopExit(outcome) == "ended"

\* stream.next().await = None or Some(Err(_)): the loop is left
stream_end(t, outcome) ==
  /\ Running
  /\ tasks[t].pc = "streaming"
  /\ tasks' = [tasks EXCEPT ![t].pc = AfterLoopExit(outcome), ![t].outcome = outcome]
  /\ UNCHANGED <<current_session_id, chat_history, attachments, db_sessions, db_messages,
                 lock, ui_vars, now, count_vars, switch_run, att_origin, msg_origin>>

\* let mut s_final = inner_s.lock().unwrap(); s_final.chat_history.push(...)
reconcile_push(t) ==
  /\ Running
  /\ tasks[t].pc = "ended"
  /\ lock = NoTask
  /\ lock' = t
  /\ chat_history' = Append(chat_history, Assistant(tasks[t].full_response))
  /\ tasks' = [tasks EXCEPT ![t].pc = "locked"]
  /\ switch_run' = NoRun
  /\ UNCHANGED <<current_session_id, attachments, db_sessions, db_messages, ui_vars, now,
                 count_vars, att_origin, msg_origin>>

\* a reconciliation that files the reply under the session current at the time
ReconcileSessionIdCurrent(t) == current_session_id

\* params![session_id, full_response]: the id the task captured
ReconcileSessionId(t) == tasks[t].session_id

\* INSERT INTO messages ... 'assistant'; refresh_history; the guard is dropped
reconcile_insert(t) ==
  /\ Running
  /\ tasks[t].pc = "locked"
  /\ lock = t
  /\ db_messages' = InsertMessage(db_messages, ReconcileSessionId(t), "assistant",
                                  tasks[t].full_response)
  /\ msg_origin' = Append(msg_origin, [send |-> t, origins |-> {}])
  /\ history_list' \in HistoryListings(db_sessions)
  /\ lock' = NoTask
  /\ tasks' = [tasks EXCEPT ![t].pc = "done"]
  /\ switch_run' = NoRun
  /\ UNCHANGED <<current_session_id, chat_history, attachments, db_sessions,
                 chat_messages, attachment_list, crashed, now, count_vars, att_origin>>

\* ------------------------------------------------------- specification
Next ==
  \/ \E file \in Files : on_pick_attachment(file)
  \/ \E index \in 0..(MaxAttachments - 1) : on_remove_attachment(index)
  \/ \E id \in 1..n_sessions : on_load_session(id)
  \/ on_clear_chat
  \/ \E msg \in RawInputs : on_send_message(msg)
  \/ \E t \in TaskIds : send_chat_messages_stream(t)
  \/ \E t \in TaskIds, chunk \in Chunks : stream_fragment(t, chunk)
  \/ \E t \in TaskIds, outcome \in {"complete", "error"} : stream_end(t, outcome)
  \/ \E t \in TaskIds : reconcile_push(t)
  \/ \E t \in TaskIds : reconcile_insert(t)

Spec == Init /\ [][Next]_vars

\* the tasks run on the tokio runtime, which keeps polling a task that can
\* proceed; the Generation Port delivers its stream to the end
TaskStep(t) ==
  \/ send_chat_messages_stream(t)
  \/ \E chunk \in Chunks : stream_fragment(t, chunk)
  \/ \E outcome \in {"complete", "error"} : stream_end(t, outcome)
  \/ reconcile_push(t)
  \/ reconcile_insert(t)

FairSpec == Spec /\ \A t \in TaskIds : WF_vars(TaskStep(t))

\* The same program with a Generation Port that produces two different
\* fragments, so that the order of the fragments shows in the text: sends,
\* switches, clears and the streaming tasks (the attachment handlers touch
\* nothing a task accumulates or records).
StreamChunks == {<<"x">>, <<"y">>}

StreamNext ==
  \/ \E id \in 1..n_sessions : on_load_session(id)
  \/ on_clear_chat
  \/ \E msg \in RawInputs : on_send_message(msg)
  \/ \E t \in TaskIds : send_chat_messages_stream(t)
  \/ \E t \in TaskIds, chunk \in StreamChunks : stream_fragment(t, chunk)
  \/ \E t \in TaskIds, outcome \in {"complete", "error"} : stream_end(t, outcome)
  \/ \E t \in TaskIds : reconcile_push(t)
  \/ \E t \in TaskIds : reconcile_insert(t)

StreamSpec == Init /\ [][StreamNext]_vars

\* ----------------------------------------------------- shared vocabulary
Rows == 1..Len(db_messages)
Dispatched(t) == tasks[t].pc # "idle"
StreamOver(t) == tasks[t].pc \in {"idle", "done"}
\* the messages rows written by send t, by role
RowsOf(t, role) == {i \in Rows : msg_origin[i].send = t /\ db_messages[i].role = role}
\* the assistant Message of send t is in the database under session id
ReplyPersistedUnder(t, id) ==
  \E i \in RowsOf(t, "assistant") :
    /\ db_messages[i].session_id = id
    /\ db_messages[i].content = tasks[t].full_response
UserTurnPersisted(t) ==
  \E i \in RowsOf(t, "user") : db_messages[i].session_id = tasks[t].dispatched_in

\* ---------------------------------------------------------------- C1
\* C1: every persisted assistant Message carries the session id that was
\* current when its send was dispatched, whatever was current when the
\* stream was reconciled; no row of that send is under another session id.
C1_ReplyFiledUnderDispatchSession ==
  \A t \in TaskIds : \A i \in RowsOf(t, "assistant") :
    db_messages[i].session_id = tasks[t].dispatched_in

\* a reply was persisted after the session had changed: it is in the dispatch
\* session's messages, and another session is current
C1_Witness ==
  \E t \in TaskIds :
    /\ tasks[t].pc = "done" /\ tasks[t].outcome = "complete" /\ tasks[t].frags >= 1
    /\ tasks[t].dispatched_in # current_session_id
    /\ ReplyPersistedUnder(t, tasks[t].dispatched_in)
    /\ \E k \in 1..Len(chat_history) : chat_history[k] = Assistant(tasks[t].full_response)

\* ---------------------------------------------------------------- C2
\* C2: whenever the state lock is free, chat_history is the persisted
\* messages of current_session_id, in insertion order.
C2_HistoryMirrorsPersisted ==
  lock = NoTask => chat_history = LoadMessages(db_messages, current_session_id)

\* ---------------------------------------------------------------- C3
SessionsWithUserTurn ==
  {db_messages[i].session_id : i \in {j \in Rows : db_messages[j].role = "user"}}
SessionRows(id) == {i \in 1..Len(db_sessions) : db_sessions[i].id = id}

\* C3: every session id with a persisted user Message has exactly one
\* Session row.
C3_OneSessionRowPerSession ==
  \A id \in SessionsWithUserTurn : Cardinality(SessionRows(id)) = 1

\* ---------------------------------------------------------------- C4
\* C4: while no clearSession has run (so that the only session there is to
\* switch to is the current one), once no stream is in flight the persisted
\* messages of current_session_id equal chat_history, element for element.
C4_SingleSessionRoundTrip ==
  (n_sessions = 1 /\ lock = NoTask /\ \A t \in TaskIds : StreamOver(t)) =>
    LoadMessages(db_messages, current_session_id) = chat_history

\* two overlapping sends of one session, the second reconciled first
C4_Witness ==
  /\ n_sessions = 1 /\ lock = NoTask
  /\ \A t \in TaskIds : tasks[t].pc = "done" /\ tasks[t].outcome = "complete"
  /\ Len(db_messages) = 4
  /\ msg_origin[3].send = 2 /\ msg_origin[4].send = 1
  /\ tasks[1].folded # <<>>
  /\ chat_history = LoadMessages(db_messages, 1)

\* ---------------------------------------------------------------- C5
\* no assistant Message of send t is in chat_history or in the database
\* (chat_history holds no send ids, so a reply is known there by its position:
\* the task is past the push and chat_history ends with it)
NoReplyRecorded(t) ==
  /\ RowsOf(t, "assistant") = {}
  /\ tasks[t].pc # "locked"

\* C5: a send whose Generation Port call failed, or whose stream ended with
\* zero fragments, records no assistant Message and keeps its user Message.
C5_NoReplyWithoutFragments ==
  \A t \in TaskIds :
    (\/ tasks[t].outcome = "open_failed"
     \/ (tasks[t].outcome = "complete" /\ tasks[t].frags = 0)) =>
      (NoReplyRecorded(t) /\ UserTurnPersisted(t))

\* ---------------------------------------------------------------- C6
\* C6: a send whose stream ended with an error after one or more fragments
\* records no assistant Message and keeps its user Message.
C6_NoPartialReplyAfterError ==
  \A t \in TaskIds :
    (tasks[t].outcome = "error" /\ tasks[t].frags >= 1) =>
      (NoReplyRecorded(t) /\ UserTurnPersisted(t))

\* ---------------------------------------------------------------- C7
\* C7: with the tasks scheduled fairly, every send whose stream opened and
\* completed with at least one fragment is eventually reconciled: its whole
\* reply is persisted as an assistant Message, whatever handlers ran meanwhile.
C7_CompletedStreamIsPersisted ==
  \A t \in TaskIds :
    (tasks[t].pc = "ended" /\ tasks[t].outcome = "complete" /\ tasks[t].frags >= 1)
      ~> ReplyPersistedUnder(t, tasks[t].dispatched_in)

\* ---------------------------------------------------------------- C8
IsSuffix(suffix, s) ==
  /\ Len(suffix) <= Len(s)
  /\ SubSeq(s, Len(s) - Len(suffix) + 1, Len(s)) = suffix

\* the step is the dispatch of send t / the step in which task t issues its request
IsDispatch(t) == tasks[t].pc = "idle" /\ tasks'[t].pc # "idle"
IsRequest(t) == tasks[t].pc = "spawned" /\ tasks'[t].pc # "spawned"

\* C8: the dispatch of a send appends the user Message to chat_history,
\* persists it under the current session and shows it as the last row, and
\* leaves the request unissued; the request is issued in a later step, with the
\* snapshot taken at dispatch, whose last element is that user Message.
C8_UserTurnBeforeRequest ==
  [][\A t \in TaskIds :
       /\ IsDispatch(t) =>
            /\ tasks'[t].pc = "spawned"
            /\ chat_history' = Append(chat_history, Last(chat_history'))
            /\ Last(chat_history').role = "user"
            /\ IsSuffix(tasks'[t].raw_input, Last(chat_history').content)
            /\ db_messages' = Append(db_messages,
                                     [session_id |-> current_session_id, role |-> "user",
                                      content |-> Last(chat_history').content])
            /\ chat_messages' # <<>>
            /\ Last(chat_messages') =
                 [role |-> "User", content |-> Last(chat_history').content]
            /\ tasks'[t].history_for_ai = chat_history'
       /\ IsRequest(t) =>
            /\ tasks'[t].history_for_ai = tasks[t].history_for_ai
            /\ \E i \in RowsOf(t, "user") :
                 /\ db_messages[i].session_id = tasks[t].dispatched_in
                 /\ User(db_messages[i].content) = Last(tasks[t].history_for_ai)
  ]_vars

\* a request was issued with a snapshot of three turns ending in the user turn
C8_Witness ==
  \E t \in TaskIds :
    /\ tasks[t].pc = "streaming"
    /\ Len(tasks[t].history_for_ai) = 3
    /\ Last(tasks[t].history_for_ai).role = "user"
    /\ UserTurnPersisted(t)

\* ---------------------------------------------------------------- C9
Occurs(sub, s) == \E k \in 1..Len(s) : k + Len(sub) - 1 <= Len(s) /\ SubSeq(s, k, k + Len(sub) - 1) = sub

\* content is a header block naming every attachment and holding its content,
\* followed by the raw text
FoldedShape(content, atts, raw) ==
  \E k \in 1..Len(content) :
    LET header == SubSeq(content, 1, k)
    IN /\ SubSeq(content, k + 1, Len(content)) = raw
       /\ header[1] = HeaderLine
       /\ \A i \in 1..Len(atts) : Occurs(atts[i][1], header) /\ Occurs(atts[i][2], header)

\* C9: a send with pending attachments persists a user Message that is the
\* header of all of them followed by the raw text, and leaves none pending; a
\* send with none pending persists exactly the raw text.
C9_AttachmentFoldIsOneShot ==
  [][\A t \in TaskIds :
       IsDispatch(t) =>
         /\ Len(db_messages') = Len(db_messages) + 1
         /\ Last(db_messages').role = "user"
         /\ attachments' = <<>>
         /\ attachments = <<>> => Last(db_messages').content = tasks'[t].raw_input
         /\ attachments # <<>> =>
              FoldedShape(Last(db_messages').content, attachments, tasks'[t].raw_input)
  ]_vars

\* a send that folded an attachment, then a send with nothing staged whose
\* persisted content is its raw text
C9_Witness ==
  /\ Dispatched(1) /\ Dispatched(2)
  /\ tasks[1].folded # <<>> /\ tasks[2].folded = <<>>
  /\ \E i \in RowsOf(1, "user") : db_messages[i].content[1] = HeaderLine
  /\ \E i \in RowsOf(2, "user") : db_messages[i].content = tasks[2].raw_input
  /\ attachments = <<>>

\* --------------------------------------------------------------- C10
\* C10: every pending attachment was staged while the current session was
\* current (so none is pending once another session is current), and every
\* user Message holds only attachments staged in its own session.
C10_AttachmentsStayInSession ==
  /\ \A i \in 1..Len(attachments) : att_origin[i] = current_session_id
  /\ Len(att_origin) = Len(attachments)
  /\ \A i \in Rows : msg_origin[i].origins \subseteq {db_messages[i].session_id}

\* attachments were folded in session 1 and, after a clear, in session 2
C10_Witness ==
  /\ \E i \in Rows : msg_origin[i].origins = {1} /\ db_messages[i].session_id = 1
  /\ \E i \in Rows : msg_origin[i].origins = {2} /\ db_messages[i].session_id = 2

\* --------------------------------------------------------------- C11
\* the session ids that have a row in either table
PersistedIds ==
  SessionIdsOf(db_sessions) \cup {db_messages[i].session_id : i \in Rows}
\* the step is a clearSession: Uuid::new_v4 produced one more id
IsClear == n_sessions' = n_sessions + 1

\* C11: clearSession makes current an id that was never generated before and
\* has no row in persistence, empties chat_history and the pending
\* attachments and writes nothing; and an id has rows in persistence only
\* once a send was dispatched in it.
C11_ClearStartsFreshSession ==
  /\ [][IsClear =>
         /\ current_session_id' \notin 1..n_sessions
         /\ current_session_id' \notin PersistedIds
         /\ chat_history' = <<>>
         /\ attachments' = <<>>
         /\ db_sessions' = db_sessions
         /\ db_messages' = db_messages
      ]_vars
  /\ [](\A id \in PersistedIds :
         \E t \in TaskIds : Dispatched(t) /\ tasks[t].dispatched_in = id)

\* cleared while a stream of the old session is in flight: the new session is
\* current, nothing is pending and persistence holds rows of the old id only
C11_Witness ==
  /\ current_session_id = 2
  /\ chat_history = <<>> /\ attachments = <<>>
  /\ db_messages # <<>>
  /\ 2 \notin PersistedIds
  /\ \E t \in TaskIds : tasks[t].pc = "streaming" /\ tasks[t].folded # <<>>

\* --------------------------------------------------------------- C12
\* the step is the second of two switchTo calls for one id with no send,
\* clear or reconciliation between them
IsSecondSwitch == switch_run.calls = 1 /\ switch_run'.calls = 2

\* C12: the second of two switchTo(id) calls in a row leaves chat_history and
\* current_session_id as the first call left them, with nothing pending; and
\* until a send, clear or reconciliation the state stays what the call made it.
C12_SwitchIsIdempotent ==
  /\ [][IsSecondSwitch =>
         /\ chat_history' = chat_history
         /\ current_session_id' = current_session_id
         /\ current_session_id' = switch_run.id
         /\ attachments' = <<>>
      ]_vars
  /\ [](switch_run.calls >= 1 =>
         /\ current_session_id = switch_run.id
         /\ chat_history = LoadMessages(db_messages, switch_run.id))

\* session 1 was switched back to twice in a row after a clear, with its
\* messages loaded and a stream still delivering fragments
C12_Witness ==
  /\ switch_run = [id |-> 1, calls |-> 2]
  /\ n_sessions = 2
  /\ Len(chat_history) >= 2
  /\ attachments = <<>>
  /\ \E t \in TaskIds : tasks[t].pc = "streaming" /\ tasks[t].frags >= 1

\* --------------------------------------------------------------- C13
\* the Session row of an id (the primary key allows one)
SessionRowOf(rows, id) == rows[CHOOSE i \in 1..Len(rows) : rows[i].id = id]
\* the step runs refresh_history: a clearSession or the end of a reconciliation
IsRefresh ==
  \/ IsClear
  \/ \E t \in TaskIds : tasks[t].pc = "locked" /\ tasks'[t].pc = "done"

\* C13: every listing refresh_history hands to the window holds each Session
\* row once, with its title, in an order in which created_at never increases
\* (newest first), whatever Messages were inserted into the sessions since.
C13_ListingNewestFirst ==
  [][IsRefresh =>
       /\ Len(history_list') = Len(db_sessions')
       /\ {history_list'[i].id : i \in 1..Len(history_list')} = SessionIdsOf(db_sessions')
       /\ \A i \in 1..Len(history_list') :
            history_list'[i].title = SessionRowOf(db_sessions', history_list'[i].id).title
       /\ \A i, j \in 1..Len(history_list') :
            i < j => SessionRowOf(db_sessions', history_list'[i].id).created_at
                       >= SessionRowOf(db_sessions', history_list'[j].id).created_at
  ]_vars

\* the reply of the older session 1 was reconciled last, after session 2 was
\* created in a later second: the listing still shows session 2 first
C13_Witness ==
  /\ lock = NoTask
  /\ Len(history_list) = 2
  /\ history_list[1].id = 2 /\ history_list[2].id = 1
  /\ SessionRowOf(db_sessions, 2).created_at > SessionRowOf(db_sessions, 1).created_at
  /\ Last(db_messages).session_id = 1 /\ Last(db_messages).role = "assistant"

\* --------------------------------------------------------------- C14
\* task t is between its dispatch and the end of its fragment loop
InFlight(t) == tasks[t].pc \in {"spawned", "streaming", "ended"}
\* task t is inside its reconciliation, holding the guard s_final
Reconciling(t) == tasks[t].pc = "locked"

\* C14: a task holds the state lock exactly while it reconciles, never while
\* it opens its stream or receives fragments; at most one task holds it; and
\* whenever no task is reconciling, however many streams are in flight, a
\* switchSession, a clearSession and a send can run at once.
C14_LockOnlyInShortSteps ==
  /\ lock \in {NoTask} \cup TaskIds
  /\ \A t \in TaskIds : InFlight(t) => lock # t
  /\ \A t \in TaskIds : Reconciling(t) <=> lock = t
  /\ Cardinality({t \in TaskIds : Reconciling(t)}) <= 1
  /\ (Running /\ \A t \in TaskIds : ~Reconciling(t)) =>
       /\ ENABLED on_load_session(current_session_id)
       /\ n_sessions < MaxClears + 1 => ENABLED on_clear_chat
       /\ n_sends < MaxSends => ENABLED (\E msg \in RawInputs : on_send_message(msg))

\* session 2 was started and a send dispatched in it while the stream of
\* session 1 was in flight; that stream is still delivering fragments while
\* the second task reconciles under the lock
C14_Witness ==
  /\ tasks[1].pc = "streaming" /\ tasks[1].frags >= 1 /\ tasks[1].dispatched_in = 1
  /\ tasks[2].pc = "locked" /\ tasks[2].dispatched_in = 2
  /\ lock = 2

\* --------------------------------------------------------------- C15
\* the step is a switchTo call (the first for its target, or the second in a
\* row), and the id it was called with
IsSwitch == switch_run'.calls >= 1 /\ switch_run' # switch_run
SwitchTarget == switch_run'.id
HasNoRows(id) == LoadMessages(db_messages, id) = <<>>

\* C15: switchTo(target) for a target with no persisted Message rows leaves
\* current_session_id, chat_history and the pending attachments as they were.
C15_SwitchToEmptyTargetChangesNothing ==
  [][(IsSwitch /\ HasNoRows(SwitchTarget)) =>
       /\ current_session_id' = current_session_id
       /\ chat_history' = chat_history
       /\ attachments' = attachments
  ]_vars

\* C15 (amended): switchTo(target) for a target with no persisted Message
\* rows makes target the current session with an empty chat_history and no
\* pending attachments, and writes nothing to persistence.
C15_SwitchToEmptyTargetLoadsEmpty ==
  [][(IsSwitch /\ HasNoRows(SwitchTarget)) =>
       /\ current_session_id' = SwitchTarget
       /\ chat_history' = <<>>
       /\ attachments' = <<>>
       /\ db_sessions' = db_sessions
       /\ db_messages' = db_messages
  ]_vars

\* session 2 has no rows and was switched to after session 1, which has
\* rows, had been loaded: session 2 is current with an empty history
C15_Witness ==
  /\ switch_run = [id |-> 2, calls |-> 1]
  /\ current_session_id = 2
  /\ chat_history = <<>> /\ attachments = <<>>
  /\ HasNoRows(2) /\ ~HasNoRows(1)
  /\ chat_messages = <<>>

\* --------------------------------------------------------------- C16
\* send 1 is the only send so far and no reply is in chat_history, so every
\* "AI" row the window shows was appended for the stream of send 1
OnlyFirstSendShown ==
  /\ n_sends = 1
  /\ \A k \in 1..Len(chat_history) : chat_history[k].role = "user"

\* C16: as long as the stream of a send has delivered no fragment (the call
\* failed, the stream is open and silent, or it ended with zero fragments),
\* the window shows no assistant row for it: every row is a user turn.
C16_NoAssistantRowBeforeFirstFragment ==
  (OnlyFirstSendShown /\ tasks[1].frags = 0) =>
    \A i \in 1..Len(chat_messages) : chat_messages[i].role = "User"

\* --------------------------------------------------------------- C17
\* the step delivers one fragment of the stream of task t
IsFragment(t) == tasks'[t].frags = tasks[t].frags + 1

\* C17: every fragment update of a stream finds a row list that is not empty
\* and whose last row is the assistant row appended for that stream (an "AI"
\* row holding the text the stream has pushed so far), and it replaces that
\* row and no other, whatever switchSession, clearSession or sends ran since.
C17_FragmentReplacesOwnRow ==
  [][\A t \in TaskIds :
       IsFragment(t) =>
         /\ chat_messages # <<>>
         /\ Last(chat_messages) = AiRow(tasks[t].full_response)
         /\ chat_messages' = [chat_messages EXCEPT ![Len(chat_messages)] =
                                AiRow(tasks'[t].full_response)]
         /\ ~crashed'
  ]_vars

\* --------------------------------------------------------------- C18
\* the messages rows of a session id, by role
RowsUnder(id, role) ==
  {i \in Rows : db_messages[i].session_id = id /\ db_messages[i].role = role}
StreamEnded(t) == tasks[t].outcome \in {"complete", "error"}

\* C18: the messages table only grows at its end (no row is modified or
\* removed); a send has at most one assistant row, and none before its stream
\* has ended; and no session id has more assistant rows than user rows.
C18_MessagesAppendOnly ==
  /\ [][/\ Len(db_messages') >= Len(db_messages)
        /\ SubSeq(db_messages', 1, Len(db_messages)) = db_messages
      ]_vars
  /\ [](/\ \A t \in TaskIds :
             /\ Cardinality(RowsOf(t, "assistant")) <= 1
             /\ RowsOf(t, "assistant") # {} => StreamEnded(t)
         /\ \A id \in 1..n_sessions :
             Cardinality(RowsUnder(id, "assistant")) <= Cardinality(RowsUnder(id, "user")))

\* two sessions with one exchange each, the reply of the older session
\* written after the user turn of the newer one
C18_Witness ==
  /\ Len(db_messages) = 4
  /\ \A t \in TaskIds : tasks[t].pc = "done" /\ tasks[t].frags >= 1
  /\ \A id \in {1, 2} :
       Cardinality(RowsUnder(id, "assistant")) = 1 /\ Cardinality(RowsUnder(id, "user")) = 1
  /\ db_messages[2].session_id = 2 /\ db_messages[3].session_id = 1

\* --------------------------------------------------------------- C19
\* the step is one of task t's streaming phase: it opens the stream, takes a
\* fragment or leaves the fragment loop
IsStreamingStep(t) ==
  /\ tasks[t].pc \in {"spawned", "streaming"}
  /\ tasks'[t] # tasks[t]

\* C19: a step of a task's streaming phase leaves current_session_id,
\* chat_history, the pending attachments, both tables and the lock as they
\* were; of the window it changes the chat rows only.
C19_StreamingLeavesStateAlone ==
  [][\A t \in TaskIds :
       IsStreamingStep(t) =>
         /\ current_session_id' = current_session_id
         /\ chat_history' = chat_history
         /\ attachments' = attachments
         /\ db_sessions' = db_sessions
         /\ db_messages' = db_messages
         /\ lock' = lock
         /\ history_list' = history_list
         /\ attachment_list' = attachment_list
  ]_vars

\* a stream has delivered two fragments and is still open: the window's
\* last row holds its text, chat_history and the tables hold the user turn only
C19_Witness ==
  /\ tasks[1].pc = "streaming" /\ tasks[1].frags >= 2
  /\ Last(chat_messages) = AiRow(tasks[1].full_response)
  /\ Len(chat_history) = 1 /\ Last(chat_history).role = "user"
  /\ Len(db_messages) = 1
  /\ lock = NoTask

\* --------------------------------------------------------------- C20
IsPrefix(p, q) == Len(p) <= Len(q) /\ SubSeq(q, 1, Len(p)) = p

\* C20: the k-th text a stream pushes to the window is the concatenation of
\* the first k fragments the Generation Port produced, in that order (so each
\* is a prefix of the next), and the text recorded at reconciliation, in
\* chat_history and in the assistant row, is the last one pushed.
C20_FragmentsInOrder ==
  \A t \in TaskIds :
    LET pushed == tasks[t].pushed
        received == tasks[t].received
    IN /\ Len(pushed) = Len(received)
       /\ \A k \in 1..Len(pushed) : pushed[k] = Flatten(SubSeq(received, 1, k))
       /\ \A k \in 1..(Len(pushed) - 1) : IsPrefix(pushed[k], pushed[k + 1])
       /\ (pushed # <<>> /\ tasks[t].pc \in {"locked", "done"}) =>
            /\ tasks[t].pc = "locked" => Last(chat_history) = Assistant(Last(pushed))
            /\ \A i \in RowsOf(t, "assistant") : db_messages[i].content = Last(pushed)

\* a stream produced "x" then "y" and was reconciled: the recorded reply is "xy"
C20_Witness ==
  \E t \in TaskIds :
    /\ tasks[t].received = <<(<<"x">>), (<<"y">>)>>
    /\ tasks[t].pushed = <<(<<"x">>), (<<"x", "y">>)>>
    /\ tasks[t].pc = "done"
    /\ \E i \in RowsOf(t, "assistant") : db_messages[i].content = <<"x", "y">>

====
